---------------------------- MODULE Spec2Model ----------------------------
(* Model of custom_components/enet/__init__.py: the config-entry setup,   *)
(* the EnetCoordinator poll loop (_async_update_data) and the per-event   *)
(* dispatch of handle_event.                                              *)
EXTENDS Integers, Sequences, FiniteSets, TLC

VARIABLES
    setupPc,          \* position of async_setup_entry
    devices,          \* hub.devices
    devIdx,           \* number of devices setup_event_listeners has visited
    registered,       \* per device position: number of register_events calls
    function_uid_map, \* EnetCoordinator.function_uid_map
    hassData,         \* entry.entry_id in hass.data[DOMAIN]
    pc,               \* position of the task running _async_update_data
    event,            \* the batch the last get_events call returned
    pending,          \* events of the batch handle_event has not visited yet
    failure,          \* what ended _async_update_data
    chanValues,       \* cached state of every stateful channel
    updates,          \* the update_values calls made, oldest first
    notified,         \* number of async_update_listeners calls
    bus,              \* events fired on hass.bus, oldest first
    log,              \* records written to _LOGGER (warning and above)
    nReceived,        \* number of raw events get_events has delivered
    feed              \* which repertoire of raw events the hub draws from

vars == <<setupPc, devices, devIdx, registered, function_uid_map, hassData,
          pc, event, pending, failure, chanValues, updates,
          notified, bus, log, nReceived, feed>>

-----------------------------------------------------------------------------
(* Bounds *)

\* raw events the hub delivers in one run when it draws from MixedEvents
MaxEvents == 3
\* raw events the hub delivers in one run when it draws from ProductEvents
MaxProductEvents == 1
\* longest batch one get_events call returns
MaxBatch == 3

-----------------------------------------------------------------------------
(* Program constants *)

EVENT_TYPE_OUTPUT_DEVICE_FUNCTION_CALLED == "outputDeviceFunctionCalled"
EVENT_TYPE_INITIAL_PRESS == "initial_press"
EVENT_TYPE_SHORT_RELEASE == "short_release"
VALUE_TYPE_ROCKER_STATE == "VT_ROCKER_STATE"
VALUE_TYPE_ROCKER_SWITCH_TIME == "VT_ROCKER_SWITCH_TIME"
EVENT_ENET == "enet_event"

-----------------------------------------------------------------------------
(* Collaborators: channels, devices, raw events *)

\* The class of each channel object, as isinstance sees it.  "Channel" is a
\* raw button/rocker input that is neither ActuatorChannel nor SensorChannel.
ChannelClass ==
    ("a1" :> "ActuatorChannel" @@ "s1" :> "SensorChannel" @@
     "b1" :> "Channel" @@ "b2" :> "Channel")

\* channel.device.uid
ChannelDevice ==
    ("a1" :> "dev1" @@ "s1" :> "dev1" @@ "b1" :> "dev2" @@ "b2" :> "dev3")

\* channel.device.hass_device_entry.id
HassDeviceEntryId ==
    ("dev1" :> "entry1" @@ "dev2" :> "entry2" @@ "dev3" :> "entry3")

StatefulChannels == {c \in DOMAIN ChannelClass :
                        ChannelClass[c] \in {"ActuatorChannel", "SensorChannel"}}

\* A device: its uid and the mapping get_function_uids_for_event returns.
Dev1 == [uid |-> "dev1", funcs |-> ("u1" :> "a1" @@ "u2" :> "s1")]
Dev2 == [uid |-> "dev2", funcs |-> ("u3" :> "b1")]
Dev3 == [uid |-> "dev3", funcs |-> ("u1" :> "b2")]

\* The device lists hub.get_devices may return.  In the second one "u1" is
\* declared by two devices.
DeviceLists == { <<Dev1, Dev2>>, <<Dev1, Dev2, Dev3>> }

FunctionUIDs == {"u1", "u2", "u3", "u4"}

\* A value entry {valueTypeID, value}; value is a JSON number or a string.
NumV(t, n) == [valueTypeID |-> t, value |-> [num |-> TRUE, n |-> n, s |-> ""]]
StrV(t, s) == [valueTypeID |-> t, value |-> [num |-> FALSE, n |-> 0, s |-> s]]

\* A raw event {event, eventData: {deviceFunctionUID, values, channelNumber}}.
RawEvent(k, u, c, vs) ==
    [event |-> k, deviceFunctionUID |-> u, channelNumber |-> c, values |-> vs]

Called(u, vs) == RawEvent(EVENT_TYPE_OUTPUT_DEVICE_FUNCTION_CALLED, u, 3, vs)

\* A small repertoire that has one event of every shape handle_event
\* distinguishes.
MixedEvents ==
    { RawEvent("deviceBatteryStateChanged", "u1", 3, <<NumV("VT_BATTERY", 0)>>),
      Called("u4", <<NumV("VT_SWITCH", 0)>>),
      Called("u1", <<NumV("VT_SWITCH", 0)>>),
      Called("u1", <<NumV("VT_SWITCH", 1)>>),
      Called("u2", <<NumV("VT_BRIGHTNESS", 550)>>),
      Called("u3", <<StrV(VALUE_TYPE_ROCKER_STATE, "DOWN_BUTTON"),
                     NumV(VALUE_TYPE_ROCKER_SWITCH_TIME, 0)>>),
      Called("u3", <<StrV(VALUE_TYPE_ROCKER_STATE, "UP_BUTTON"),
                     NumV(VALUE_TYPE_ROCKER_SWITCH_TIME, 550)>>),
      Called("u3", <<StrV(VALUE_TYPE_ROCKER_STATE, "UP_BUTTON")>>),
      Called("u3", <<StrV(VALUE_TYPE_ROCKER_STATE, "UP_BUTTON"),
                     NumV(VALUE_TYPE_ROCKER_SWITCH_TIME, 550),
                     NumV(VALUE_TYPE_ROCKER_SWITCH_TIME, 550)>>),
      Called("u3", <<StrV(VALUE_TYPE_ROCKER_STATE, "UP_BUTTON"),
                     StrV(VALUE_TYPE_ROCKER_SWITCH_TIME, "LONG")>>) }

\* Every outputDeviceFunctionCalled event for the event channel "u3" over the
\* channel numbers and value lists below.
StateEntries ==
    { StrV(t, s) : t \in {VALUE_TYPE_ROCKER_STATE, "rocker state"},
                   s \in {"DOWN_BUTTON", "UP_BUTTON"} }

TimeEntries ==
    { NumV(t, n) : t \in {VALUE_TYPE_ROCKER_SWITCH_TIME, "rocker switch time"},
                   n \in {-1, 0, 550} }
    \cup { StrV(VALUE_TYPE_ROCKER_SWITCH_TIME, "LONG") }

ValueLists ==
    { <<a, b>> : a \in StateEntries \cup {NumV("VT_SWITCH", 1)}, b \in TimeEntries }
    \cup { <<StrV(VALUE_TYPE_ROCKER_STATE, "DOWN_BUTTON")>>,
           <<StrV(VALUE_TYPE_ROCKER_STATE, "DOWN_BUTTON"),
             NumV(VALUE_TYPE_ROCKER_SWITCH_TIME, 0),
             NumV(VALUE_TYPE_ROCKER_SWITCH_TIME, 0)>> }

ProductEvents ==
    { RawEvent(EVENT_TYPE_OUTPUT_DEVICE_FUNCTION_CALLED, u, c, vs) :
        u \in {"u3"}, c \in {0, 3}, vs \in ValueLists }

Feeds == {"mixed", "product"}
FeedEvents(f) == IF f = "mixed" THEN MixedEvents ELSE ProductEvents
FeedQuota(f) == IF f = "mixed" THEN MaxEvents ELSE MaxProductEvents

\* The batches a get_events call may return, empty batch included.
Batches(f, room) ==
    UNION { [1..n -> FeedEvents(f)] : n \in 0..(IF room < MaxBatch THEN room ELSE MaxBatch) }


\* get_events tags nothing; seq is the arrival position of a raw event, kept
\* so that effects can be traced back to the event that caused them.
Tagged(b, base) == [i \in 1..Len(b) |-> [seq |-> base + i, raw |-> b[i]]]

-----------------------------------------------------------------------------
(* The pure parts of handle_event *)

\* mutant: a missing function UID falls back to a channel
Lookup_Default(map, uid) == IF uid \in DOMAIN map THEN map[uid] ELSE "b1"

\* self.function_uid_map.get(function_uid): the channel, or "None"
Lookup(map, uid) == IF uid \in DOMAIN map THEN map[uid] ELSE "None"

\* isinstance(device, ActuatorChannel) or isinstance(device, SensorChannel)
IsStateful(ch) == ChannelClass[ch] = "ActuatorChannel" \/ ChannelClass[ch] = "SensorChannel"

\* mutant: only too short a values array is rejected
Malformed_TooShort(values) == Len(values) < 2

\* len(values) != 2
Malformed(values) == Len(values) # 2

\* mutant: the valueTypeID of values[0] is not looked at
Subtype_AnyType(raw) ==
    IF /\ ~raw.values[1].value.num
       /\ raw.values[1].value.s = "DOWN_BUTTON"
    THEN raw.channelNumber + 1
    ELSE raw.channelNumber

\* mutant: the DOWN side is not moved to the next subtype
Subtype_NoIncrement(raw) == raw.channelNumber

\* subtype = data["channelNumber"], plus one for the DOWN side of a rocker
Subtype(raw) ==
    IF /\ raw.values[1].valueTypeID = VALUE_TYPE_ROCKER_STATE
       /\ ~raw.values[1].value.num
       /\ raw.values[1].value.s = "DOWN_BUTTON"
    THEN raw.channelNumber + 1
    ELSE raw.channelNumber

\* values[1]["value"] > 0 raises TypeError when the value is not a number
CompareRaises(raw) ==
    /\ raw.values[2].valueTypeID = VALUE_TYPE_ROCKER_SWITCH_TIME
    /\ ~raw.values[2].value.num

\* mutant: a switch time of 0 counts as a release
EventType_NotNegative(raw) ==
    IF /\ raw.values[2].valueTypeID = VALUE_TYPE_ROCKER_SWITCH_TIME
       /\ raw.values[2].value.n >= 0
    THEN EVENT_TYPE_SHORT_RELEASE
    ELSE EVENT_TYPE_INITIAL_PRESS

\* mutant: the valueTypeID of values[1] is not looked at
EventType_AnyType(raw) ==
    IF raw.values[2].value.n > 0
    THEN EVENT_TYPE_SHORT_RELEASE
    ELSE EVENT_TYPE_INITIAL_PRESS

\* event_type: initial_press unless the switch time is positive
EventType(raw) ==
    IF /\ raw.values[2].valueTypeID = VALUE_TYPE_ROCKER_SWITCH_TIME
       /\ raw.values[2].value.n > 0
    THEN EVENT_TYPE_SHORT_RELEASE
    ELSE EVENT_TYPE_INITIAL_PRESS

\* mutant: the device registry id and the device uid are swapped
BusData_SwappedIds(ch, raw) ==
    [device_id |-> ChannelDevice[ch],
     unique_id |-> HassDeviceEntryId[ChannelDevice[ch]],
     type      |-> EventType(raw),
     subtype   |-> Subtype(raw)]

\* bus_data
BusData(ch, raw) ==
    [device_id |-> HassDeviceEntryId[ChannelDevice[ch]],
     unique_id |-> ChannelDevice[ch],
     type      |-> EventType(raw),
     subtype   |-> Subtype(raw)]

\* mutant: the values are added to what the channel already holds
UpdateValues_Accumulates(cache, ch, function_uid, values) ==
    [cache EXCEPT ![ch] = @ \o <<function_uid, values>>]

\* channel.update_values(function_uid, values) overwrites the cached state of
\* the channel
UpdateValues(cache, ch, function_uid, values) ==
    [cache EXCEPT ![ch] = <<function_uid, values>>]

\* mutant: the listeners are not notified
AsyncUpdateListeners_Skipped(n) == n

\* self.async_update_listeners(): one more notification
AsyncUpdateListeners(n) == n + 1

\* mutant: the for loop walks the batch from its end
Current_Reversed(p) == p[Len(p)]

\* the event the for loop of handle_event visits next, and those after it
Current(p) == Head(p)
Remaining(p) == Tail(p)

\* mutant: _async_update_data returns after one batch
AfterEvent_OneBatch(rest) == IF rest = <<>> THEN "finished" ELSE "dispatching"

\* where the task is once the current event is done: the for loop goes on,
\* or handle_event returns and the while loop calls get_events again
AfterEvent(rest) == IF rest = <<>> THEN "calling" ELSE "dispatching"

LogRecord(level, msg, seq) == [level |-> level, msg |-> msg, seq |-> seq]

-----------------------------------------------------------------------------
(* State after construction *)

SetupVars == <<setupPc, devices, devIdx, registered, function_uid_map>>
HostVars == <<hassData>>
EffectVars == <<chanValues, updates, notified, bus>>
LoopVars == <<pc, event, pending, failure, nReceived>>

Init ==
    /\ setupPc = "login"
    /\ devices = <<>>
    /\ devIdx = 0
    /\ registered = <<>>
    /\ function_uid_map = <<>>
    /\ hassData = FALSE
    /\ pc = "idle"
    /\ event = <<>>
    /\ pending = <<>>
    /\ failure = "none"
    /\ chanValues = [c \in StatefulChannels |-> <<>>]
    /\ updates = <<>>
    /\ notified = 0
    /\ bus = <<>>
    /\ log = <<>>
    /\ nReceived = 0
    /\ feed \in Feeds

-----------------------------------------------------------------------------
(* async_setup_entry *)

\* await hub.simple_login() succeeds; hass.data[DOMAIN][entry.entry_id] = hub
LoginOk ==
    /\ setupPc = "login"
    /\ setupPc' = "get_devices"
    /\ hassData' = TRUE
    /\ UNCHANGED <<devices, devIdx, registered, function_uid_map, log, feed>>
    /\ UNCHANGED <<LoopVars, EffectVars>>

\* simple_login raises: error logged, return False
LoginFails ==
    /\ setupPc = "login"
    /\ setupPc' = "failed"
    /\ log' = Append(log, LogRecord("error", "login", 0))
    /\ UNCHANGED <<devices, devIdx, registered, function_uid_map, feed>>
    /\ UNCHANGED <<HostVars, LoopVars, EffectVars>>

\* hub.devices = await hub.get_devices()
GetDevicesOk ==
    /\ setupPc = "get_devices"
    /\ \E ds \in DeviceLists :
          /\ devices' = ds
          /\ registered' = [i \in 1..Len(ds) |-> 0]
    /\ setupPc' = "forward"
    /\ UNCHANGED <<devIdx, function_uid_map, log, feed>>
    /\ UNCHANGED <<HostVars, LoopVars, EffectVars>>

\* get_devices raises: error logged, return False
GetDevicesFails ==
    /\ setupPc = "get_devices"
    /\ setupPc' = "failed"
    /\ log' = Append(log, LogRecord("error", "get_devices", 0))
    /\ UNCHANGED <<devices, devIdx, registered, function_uid_map, feed>>
    /\ UNCHANGED <<HostVars, LoopVars, EffectVars>>

\* await hass.config_entries.async_forward_entry_setups(entry, PLATFORMS)
ForwardEntrySetups ==
    /\ setupPc = "forward"
    /\ setupPc' = IF Len(devices) = 0 THEN "setup_devices" ELSE "listeners"
    /\ UNCHANGED <<devices, devIdx, registered, function_uid_map, log, feed>>
    /\ UNCHANGED <<HostVars, LoopVars, EffectVars>>

\* mutant: an entry that is already there is kept
DictUpdate_KeepFirst(map, func_uids) == map @@ func_uids

\* function_uid_map.update(func_uids): entries of func_uids win
DictUpdate(map, func_uids) == func_uids @@ map

\* mutant: the event subscription of the device is not made
RegisterEvents_Skipped(reg, i) == reg

\* await device.register_events(), for the device at position i
RegisterEvents(reg, i) == [reg EXCEPT ![i] = @ + 1]

\* one iteration of the for loop of setup_event_listeners
SetupEventListeners ==
    /\ setupPc = "listeners"
    /\ devIdx < Len(devices)
    /\ LET device == devices[devIdx + 1]
           func_uids == device.funcs
       IN /\ function_uid_map' = DictUpdate(function_uid_map, func_uids)
          /\ registered' = RegisterEvents(registered, devIdx + 1)
    /\ devIdx' = devIdx + 1
    /\ setupPc' = IF devIdx' = Len(devices) THEN "setup_devices" ELSE "listeners"
    /\ UNCHANGED <<devices, log, feed>>
    /\ UNCHANGED <<HostVars, LoopVars, EffectVars>>

\* await async_setup_devices(hub.coordinator)
AsyncSetupDevices ==
    /\ setupPc = "setup_devices"
    /\ setupPc' = "create_task"
    /\ UNCHANGED <<devices, devIdx, registered, function_uid_map, log, feed>>
    /\ UNCHANGED <<HostVars, LoopVars, EffectVars>>

\* hass.loop.create_task(hub.coordinator.async_refresh()); return True.
\* The task enters _async_update_data and issues its first get_events call.
CreateTask ==
    /\ setupPc = "create_task"
    /\ pc = "idle"
    /\ setupPc' = "done"
    /\ pc' = "calling"
    /\ UNCHANGED <<devices, devIdx, registered, function_uid_map, log, feed,
                   event, pending, failure, nReceived>>
    /\ UNCHANGED <<HostVars, EffectVars>>

-----------------------------------------------------------------------------
(* async_unload_entry *)

\* Runs while the poll task is suspended in get_events, or after it ended.
\* unload_ok is what async_unload_platforms returned.
AsyncUnloadEntry ==
    /\ setupPc = "done"
    /\ hassData
    /\ pc \in {"calling", "finished"}
    /\ \E unload_ok \in BOOLEAN :
          hassData' = IF unload_ok THEN FALSE ELSE hassData
    /\ UNCHANGED <<log, feed>>
    /\ UNCHANGED <<SetupVars, LoopVars, EffectVars>>

-----------------------------------------------------------------------------
(* EnetCoordinator._async_update_data *)

\* event = await self.hub.get_events() returns a batch, possibly empty
GetEventsReturns ==
    /\ pc = "calling"
    /\ \E b \in Batches(feed, FeedQuota(feed) - nReceived) :
          /\ event' = Tagged(b, nReceived)
          /\ nReceived' = nReceived + Len(b)
    /\ pc' = "got"
    /\ UNCHANGED <<pending, failure, log, feed>>
    /\ UNCHANGED <<SetupVars, HostVars, EffectVars>>

\* get_events raises: the call is outside the try block, the exception leaves
\* _async_update_data and the task that ran async_refresh ends
GetEventsRaises ==
    /\ pc = "calling"
    /\ pc' = "finished"
    /\ failure' = "transport"
    /\ UNCHANGED <<event, pending, nReceived, log, feed>>
    /\ UNCHANGED <<SetupVars, HostVars, EffectVars>>

\* if event: enter handle_event, else go round the while loop
CheckEvent ==
    /\ pc = "got"
    /\ IF event # <<>>
       THEN /\ pc' = "dispatching"
            /\ pending' = event
       ELSE /\ pc' = "calling"
            /\ pending' = pending
    /\ UNCHANGED <<event, failure, nReceived, log, feed>>
    /\ UNCHANGED <<SetupVars, HostVars, EffectVars>>

-----------------------------------------------------------------------------
(* EnetCoordinator.handle_event, one iteration of its for loop per action *)

Dispatching == pc = "dispatching" /\ pending # <<>>

\* mutant: the kind of the event is not looked at
IsCalled_AnyKind(raw) == TRUE

\* event["event"] == EVENT_TYPE_OUTPUT_DEVICE_FUNCTION_CALLED
IsCalled(raw) == raw.event = EVENT_TYPE_OUTPUT_DEVICE_FUNCTION_CALLED

\* event["event"] is not outputDeviceFunctionCalled: nothing happens
HandleOtherKind ==
    /\ Dispatching
    /\ LET e == Current(pending) IN ~IsCalled(e.raw)
    /\ pending' = Remaining(pending)
    /\ pc' = AfterEvent(pending')
    /\ UNCHANGED <<event, failure, nReceived, log, feed>>
    /\ UNCHANGED <<SetupVars, HostVars, EffectVars>>

\* mutant: an unknown function UID is entered into the registry
HandleUnmapped_Registers ==
    /\ Dispatching
    /\ LET e == Current(pending)
           device == Lookup(function_uid_map, e.raw.deviceFunctionUID)
       IN /\ IsCalled(e.raw)
          /\ device = "None"
          /\ log' = Append(log, LogRecord("warning", "unmapped", e.seq))
          /\ function_uid_map' =
                DictUpdate(function_uid_map, (e.raw.deviceFunctionUID :> "None"))
    /\ pending' = Remaining(pending)
    /\ pc' = AfterEvent(pending')
    /\ UNCHANGED <<event, failure, nReceived, feed>>
    /\ UNCHANGED <<setupPc, devices, devIdx, registered, HostVars, EffectVars>>

\* the function UID is not in function_uid_map: warning, continue
HandleUnmapped ==
    /\ Dispatching
    /\ LET e == Current(pending)
           device == Lookup(function_uid_map, e.raw.deviceFunctionUID)
       IN /\ IsCalled(e.raw)
          /\ device = "None"
          /\ log' = Append(log, LogRecord("warning", "unmapped", e.seq))
    /\ pending' = Remaining(pending)
    /\ pc' = AfterEvent(pending')
    /\ UNCHANGED <<event, failure, nReceived, feed>>
    /\ UNCHANGED <<SetupVars, HostVars, EffectVars>>

\* device.update_values(function_uid, values); self.async_update_listeners()
HandleStateful ==
    /\ Dispatching
    /\ LET e == Current(pending)
           device == Lookup(function_uid_map, e.raw.deviceFunctionUID)
       IN /\ IsCalled(e.raw)
          /\ device # "None"
          /\ IsStateful(device)
          /\ chanValues' = UpdateValues(chanValues, device,
                                         e.raw.deviceFunctionUID, e.raw.values)
          /\ updates' = Append(updates, [channel |-> device, seq |-> e.seq])
          /\ notified' = AsyncUpdateListeners(notified)
    /\ pending' = Remaining(pending)
    /\ pc' = AfterEvent(pending')
    /\ UNCHANGED <<event, failure, nReceived, bus, log, feed>>
    /\ UNCHANGED <<SetupVars, HostVars>>

\* an event channel and len(values) != 2: warning, continue
HandleMalformed ==
    /\ Dispatching
    /\ LET e == Current(pending)
           device == Lookup(function_uid_map, e.raw.deviceFunctionUID)
       IN /\ IsCalled(e.raw)
          /\ device # "None"
          /\ ~IsStateful(device)
          /\ Malformed(e.raw.values)
          /\ log' = Append(log, LogRecord("warning", "expected 2 values", e.seq))
    /\ pending' = Remaining(pending)
    /\ pc' = AfterEvent(pending')
    /\ UNCHANGED <<event, failure, nReceived, feed>>
    /\ UNCHANGED <<SetupVars, HostVars, EffectVars>>

\* an event channel and two values: decode and fire on the bus
HandleButton ==
    /\ Dispatching
    /\ LET e == Current(pending)
           device == Lookup(function_uid_map, e.raw.deviceFunctionUID)
       IN /\ IsCalled(e.raw)
          /\ device # "None"
          /\ ~IsStateful(device)
          /\ ~Malformed(e.raw.values)
          /\ ~CompareRaises(e.raw)
          /\ bus' = Append(bus, [name |-> EVENT_ENET,
                                 data |-> BusData(device, e.raw),
                                 src  |-> e])
    /\ pending' = Remaining(pending)
    /\ pc' = AfterEvent(pending')
    /\ UNCHANGED <<event, failure, nReceived, chanValues, updates, notified,
                   log, feed>>
    /\ UNCHANGED <<SetupVars, HostVars>>

\* mutant: the exception is swallowed and the for loop goes on
AfterException_Swallowed == "dispatching"

\* where the task is after handle_event raised: the except clause logs and
\* raises UpdateFailed, which leaves the while loop and _async_update_data
AfterException == "finished"

\* the comparison of the switch time raises inside handle_event
HandleRaises ==
    /\ Dispatching
    /\ LET e == Current(pending)
           device == Lookup(function_uid_map, e.raw.deviceFunctionUID)
       IN /\ IsCalled(e.raw)
          /\ device # "None"
          /\ ~IsStateful(device)
          /\ ~Malformed(e.raw.values)
          /\ CompareRaises(e.raw)
          /\ log' = Append(log, LogRecord("exception", "failed to handle event", e.seq))
    /\ pending' = Remaining(pending)
    /\ pc' = AfterException
    /\ failure' = "UpdateFailed"
    /\ UNCHANGED <<event, nReceived, feed>>
    /\ UNCHANGED <<SetupVars, HostVars, EffectVars>>

-----------------------------------------------------------------------------

Next ==
    \/ LoginOk
    \/ LoginFails
    \/ GetDevicesOk
    \/ GetDevicesFails
    \/ ForwardEntrySetups
    \/ SetupEventListeners
    \/ AsyncSetupDevices
    \/ CreateTask
    \/ AsyncUnloadEntry
    \/ GetEventsReturns
    \/ GetEventsRaises
    \/ CheckEvent
    \/ HandleOtherKind
    \/ HandleUnmapped
    \/ HandleStateful
    \/ HandleMalformed
    \/ HandleButton
    \/ HandleRaises

Spec == Init /\ [][Next]_vars

\* The event loop keeps running whatever is runnable, and the hub answers
\* every get_events call.
FairSpec == Spec /\ WF_vars(Next)

-----------------------------------------------------------------------------
(* Properties *)

TaskEnded == pc = "finished"

\* async_unload_entry has returned True: the entry that setup stored is gone
Unloaded == setupPc = "done" /\ ~hassData

\* C1: an exception raised while handle_event processes an event of a batch
\* does not terminate the poll loop: the task that runs _async_update_data
\* is never ended by UpdateFailed.
C1_HandlerExceptionKeepsPolling ==
    ~(TaskEnded /\ failure = "UpdateFailed")

\* C2: a get_events call that raises does not stop the coordinator while the
\* hub still has events to deliver: the next call is made.
C2_TransportFailureRecovery ==
    ~(TaskEnded /\ failure = "transport" /\ nReceived < FeedQuota(feed))

\* C3: once async_unload_entry has completed successfully, eventually no
\* further get_events call is issued and no further event is dispatched.
C3_UnloadStopsPolling ==
    [](Unloaded => <>[](pc \notin {"calling", "got", "dispatching"}))

\* C4: the bus events fired, and the state updates applied, follow the order
\* in which the raw events were received, within a batch and across batches,
\* and every event not yet visited arrived after every event that had an effect.
StrictlyAscending(seqs) ==
    \A i, j \in 1..Len(seqs) : i < j => seqs[i] < seqs[j]

C4_EffectsInArrivalOrder ==
    /\ StrictlyAscending([i \in 1..Len(bus) |-> bus[i].src.seq])
    /\ StrictlyAscending([i \in 1..Len(updates) |-> updates[i].seq])
    /\ \A i \in 1..Len(bus) : bus[i].src.seq \in 1..nReceived
    /\ \A i \in 1..Len(updates) : updates[i].seq \in 1..nReceived
    /\ pc = "dispatching" =>
          \A k \in 1..Len(pending) :
             /\ \A i \in 1..Len(bus) : bus[i].src.seq < pending[k].seq
             /\ \A i \in 1..Len(updates) : updates[i].seq < pending[k].seq

\* Two bus events of one batch and a bus event of a later batch were fired.
C4_Witness ==
    /\ Len(bus) >= 3
    /\ \E i, j \in 1..Len(event) : i < j /\ bus[Len(bus)].src = event[j]
                                         /\ bus[Len(bus) - 1].src = event[i]
    /\ \A k \in 1..Len(event) : bus[1].src.seq < event[k].seq

\* The event handle_event is about to visit, read off the batch itself.
AtEvent == pc = "dispatching" /\ pending # <<>>
Visited == pending[1]
Mapped(raw) == raw.deviceFunctionUID \in DOMAIN function_uid_map
OnEventChannel(raw) ==
    /\ raw.event = EVENT_TYPE_OUTPUT_DEVICE_FUNCTION_CALLED
    /\ Mapped(raw)
    /\ ChannelClass[function_uid_map[raw.deviceFunctionUID]]
          \notin {"ActuatorChannel", "SensorChannel"}

\* The for loop moves on to the events after the visited one.
MovesOn ==
    /\ pending' = Tail(pending)
    /\ failure' = failure
    /\ pc' = IF Len(pending) > 1 THEN "dispatching" ELSE "calling"

\* C5: an outputDeviceFunctionCalled event whose deviceFunctionUID is not in
\* function_uid_map writes one warning, changes no channel, notifies no
\* listener, fires nothing on the bus and raises nothing, and the for loop
\* moves on to the later events of the batch.
C5_UnmappedUidSkipped ==
    [][ (/\ AtEvent
         /\ Visited.raw.event = EVENT_TYPE_OUTPUT_DEVICE_FUNCTION_CALLED
         /\ ~Mapped(Visited.raw))
        => /\ log' = Append(log, [level |-> "warning", msg |-> "unmapped",
                                  seq |-> Visited.seq])
           /\ chanValues' = chanValues
           /\ updates' = updates
           /\ notified' = notified
           /\ bus' = bus
           /\ MovesOn ]_vars

\* An unmapped event was skipped with a warning and the event after it in the
\* same batch fired on the bus.
C5_Witness ==
    \E i \in 1..Len(log), k \in 1..Len(bus), m \in 1..Len(event) :
       /\ log[i].msg = "unmapped"
       /\ m > 1
       /\ event[m - 1].seq = log[i].seq
       /\ event[m] = bus[k].src

\* C6: an event addressed to an event channel whose values array does not
\* have exactly 2 entries writes one warning, fires nothing on the bus and
\* raises nothing, and the for loop moves on to the later events of the batch.
C6_MalformedButtonSkipped ==
    [][ (/\ AtEvent
         /\ OnEventChannel(Visited.raw)
         /\ Len(Visited.raw.values) # 2)
        => /\ log' = Append(log, [level |-> "warning", msg |-> "expected 2 values",
                                  seq |-> Visited.seq])
           /\ bus' = bus
           /\ MovesOn ]_vars

\* A three-value event was skipped with a warning and the event after it in
\* the same batch fired on the bus.
C6_Witness ==
    \E i \in 1..Len(log), k \in 1..Len(bus), m \in 1..Len(event) :
       /\ log[i].msg = "expected 2 values"
       /\ m > 1
       /\ event[m - 1].seq = log[i].seq
       /\ Len(event[m - 1].raw.values) = 3
       /\ event[m] = bus[k].src

\* C7: the subtype of every bus event is channelNumber + 1 when values[0] is
\* of the rocker-state type with value "DOWN_BUTTON", and channelNumber in
\* every other case.
C7_SubtypeRule ==
    \A i \in 1..Len(bus) :
       LET raw == bus[i].src.raw
           v0 == raw.values[1]
       IN /\ Len(raw.values) = 2
          /\ bus[i].data.subtype =
                IF /\ v0.valueTypeID = VALUE_TYPE_ROCKER_STATE
                   /\ v0.value = [num |-> FALSE, n |-> 0, s |-> "DOWN_BUTTON"]
                THEN raw.channelNumber + 1
                ELSE raw.channelNumber

\* A bus event was fired for the DOWN side of a rocker on channel 0, with
\* subtype 1.
C7_Witness ==
    \E i \in 1..Len(bus) :
       /\ bus[i].src.raw.values[1] = StrV(VALUE_TYPE_ROCKER_STATE, "DOWN_BUTTON")
       /\ bus[i].src.raw.channelNumber = 0
       /\ bus[i].data.subtype = 1

\* C8: the type of every bus event is "short_release" when values[1] is of
\* the rocker-switch-time type with a value above 0, and "initial_press" in
\* every other case.
C8_EventTypeRule ==
    \A i \in 1..Len(bus) :
       LET raw == bus[i].src.raw
           v1 == raw.values[2]
       IN /\ Len(raw.values) = 2
          /\ bus[i].data.type =
                IF /\ v1.valueTypeID = VALUE_TYPE_ROCKER_SWITCH_TIME
                   /\ v1.value.num
                   /\ v1.value.n > 0
                THEN "short_release"
                ELSE "initial_press"

\* A release (switch time 550) and a press (switch time 0) were both fired.
C8_Witness ==
    /\ \E i \in 1..Len(bus) :
          /\ bus[i].src.raw.values[2] = NumV(VALUE_TYPE_ROCKER_SWITCH_TIME, 550)
          /\ bus[i].data.type = "short_release"
    /\ \E i \in 1..Len(bus) :
          /\ bus[i].src.raw.values[2] = NumV(VALUE_TYPE_ROCKER_SWITCH_TIME, 0)
          /\ bus[i].data.type = "initial_press"

\* The two payloads of the concrete decoding cases, with the given
\* valueTypeIDs for the rocker state and the rocker switch time.
RockerDown(stateType, timeType) ==
    RawEvent(EVENT_TYPE_OUTPUT_DEVICE_FUNCTION_CALLED, "u3", 3,
             <<StrV(stateType, "DOWN_BUTTON"), NumV(timeType, 0)>>)

RockerUpRelease(stateType, timeType) ==
    RawEvent(EVENT_TYPE_OUTPUT_DEVICE_FUNCTION_CALLED, "u3", 3,
             <<StrV(stateType, "UP_BUTTON"), NumV(timeType, 550)>>)

\* Visiting the event raw fires exactly one bus event, of that subtype and type.
FiresOne(raw, subtype, type) ==
    (AtEvent /\ Visited.raw = raw /\ OnEventChannel(raw))
    => /\ Len(bus') = Len(bus) + 1
       /\ SubSeq(bus', 1, Len(bus)) = bus
       /\ bus'[Len(bus')].name = "enet_event"
       /\ bus'[Len(bus')].data.subtype = subtype
       /\ bus'[Len(bus')].data.type = type

Fired(raw, subtype, type) ==
    \E i \in 1..Len(bus) : /\ bus[i].src.raw = raw
                           /\ bus[i].data.subtype = subtype
                           /\ bus[i].data.type = type

OnStatefulChannel(raw) ==
    /\ raw.event = EVENT_TYPE_OUTPUT_DEVICE_FUNCTION_CALLED
    /\ Mapped(raw)
    /\ ChannelClass[function_uid_map[raw.deviceFunctionUID]]
          \in {"ActuatorChannel", "SensorChannel"}

\* C11: an event resolved to an actuator or sensor channel makes one
\* update_values(function_uid, values) call on that channel and one listener
\* notification within the same step, before the next event is visited, and
\* fires nothing on the bus; in every state the number of notifications is
\* the number of update_values calls.
C11_OneNotificationPerStateUpdate ==
    /\ [](notified = Len(updates))
    /\ [][ (AtEvent /\ OnStatefulChannel(Visited.raw))
           => LET ch == function_uid_map[Visited.raw.deviceFunctionUID]
              IN /\ updates' = Append(updates, [channel |-> ch, seq |-> Visited.seq])
                 /\ chanValues'[ch] = <<Visited.raw.deviceFunctionUID,
                                        Visited.raw.values>>
                 /\ notified' = notified + 1
                 /\ bus' = bus
                 /\ MovesOn ]_vars

\* Two state updates of one batch were applied and notified.
C11_Witness ==
    /\ notified = 2
    /\ Len(updates) = 2
    /\ Len(event) = 2
    /\ updates[1].seq = event[1].seq
    /\ updates[2].seq = event[2].seq

\* Visiting the event channel event fires exactly one bus event named
\* "enet_event" with the four keys, changes no cached channel state and
\* notifies no listener.
FiresOneButtonEvent ==
    LET ch == function_uid_map[Visited.raw.deviceFunctionUID]
        fired == bus'[Len(bus')]
    IN /\ Len(bus') = Len(bus) + 1
       /\ SubSeq(bus', 1, Len(bus)) = bus
       /\ fired.name = "enet_event"
       /\ DOMAIN fired.data = {"device_id", "unique_id", "type", "subtype"}
       /\ fired.data.device_id = HassDeviceEntryId[ChannelDevice[ch]]
       /\ fired.data.unique_id = ChannelDevice[ch]
       /\ fired.data.type \in {"initial_press", "short_release"}
       /\ fired.data.subtype \in {Visited.raw.channelNumber,
                                  Visited.raw.channelNumber + 1}
       /\ fired.src = Visited
       /\ chanValues' = chanValues
       /\ updates' = updates
       /\ notified' = notified

\* values[1] can be compared with 0: it is a number, or not of the
\* rocker-switch-time type (and then never compared).
SwitchTimeComparable(raw) ==
    raw.values[2].valueTypeID = "VT_ROCKER_SWITCH_TIME" => raw.values[2].value.num

\* C12 as stated: every event with two values resolved to an event channel
\* fires exactly one bus event {device_id, unique_id, type, subtype} named
\* "enet_event", changes no cached channel state and notifies no listener.
C12_EveryTwoValueEventFires ==
    [][ (/\ AtEvent
         /\ OnEventChannel(Visited.raw)
         /\ Len(Visited.raw.values) = 2)
        => FiresOneButtonEvent ]_vars

\* C12 amended: the same, for events with two values whose switch time is a
\* number whenever values[1] is of the rocker-switch-time type; an event
\* whose switch time is not a number fires nothing.
C12_ButtonEventFiresOnce ==
    [][ (/\ AtEvent
         /\ OnEventChannel(Visited.raw)
         /\ Len(Visited.raw.values) = 2)
        => IF SwitchTimeComparable(Visited.raw)
           THEN FiresOneButtonEvent
           ELSE bus' = bus ]_vars

\* A button event was fired while a stateful channel already had cached
\* state, which is still there.
C12_Witness ==
    /\ Len(bus) = 1
    /\ Len(updates) = 1
    /\ updates[1].seq < bus[1].src.seq
    /\ chanValues[updates[1].channel] # <<>>
    /\ notified = 1

\* C13: an event whose kind is not "outputDeviceFunctionCalled" changes no
\* channel state and no registry entry, notifies no listener, fires nothing
\* on the bus and raises nothing, and the for loop moves on to the events
\* after it.
C13_OtherKindIgnored ==
    [][ (AtEvent /\ Visited.raw.event # "outputDeviceFunctionCalled")
        => /\ chanValues' = chanValues
           /\ updates' = updates
           /\ function_uid_map' = function_uid_map
           /\ notified' = notified
           /\ bus' = bus
           /\ MovesOn ]_vars

\* An event of another kind, addressed to a mapped function UID, was passed
\* over and the event after it in the same batch had its effect.
C13_Witness ==
    \E m \in 2..Len(event) :
       /\ event[m - 1].raw.event # "outputDeviceFunctionCalled"
       /\ Mapped(event[m - 1].raw)
       /\ \/ \E k \in 1..Len(bus) : bus[k].src = event[m]
          \/ \E k \in 1..Len(updates) : updates[k].seq = event[m].seq
       /\ \A k \in 1..Len(updates) : updates[k].seq # event[m - 1].seq

\* The events handle_event has been through: all that arrived, except the
\* batch that is still to be entered and the events not yet visited.
VisitedSeqs ==
    {q \in 1..nReceived :
        /\ ~(pc = "got" /\ \E m \in 1..Len(event) : event[m].seq = q)
        /\ ~(pc = "dispatching" /\ \E m \in 1..Len(pending) : pending[m].seq = q)}

HadEffect(q) ==
    \/ \E k \in 1..Len(bus) : bus[k].src.seq = q
    \/ \E k \in 1..Len(updates) : updates[k].seq = q

\* A record about the event itself, or the exception record of its batch
\* (which prints the whole batch).
HasLogRecord(q) ==
    \/ \E i \in 1..Len(log) : log[i].seq = q
    \/ \E i \in 1..Len(log), m, n \in 1..Len(event) :
          /\ log[i].level = "exception"
          /\ event[m].seq = log[i].seq
          /\ event[n].seq = q

\* C14: every received event that led to neither a state update nor a bus
\* event (unmapped UID, malformed payload, unrecognized kind, or skipped
\* after a failure) has a log record.
C14_NoSilentDrop ==
    \A q \in VisitedSeqs : HadEffect(q) \/ HasLogRecord(q)

\* setup_event_listeners has gone through the whole device list.
ListenersSetUp == setupPc \in {"setup_devices", "create_task", "done"}

\* The positions in hub.devices of the devices that declare u.
Declaring(u) == {i \in 1..Len(devices) : u \in DOMAIN devices[i].funcs}

LastOf(S) == CHOOSE i \in S : \A j \in S : j <= i

\* C15: after setup_event_listeners has run over the device list, looking up
\* a function UID yields the channel the last device declaring it declared
\* for it, and not-found for a function UID no device declared.
C15_RegistryResolves ==
    ListenersSetUp =>
       \A u \in FunctionUIDs :
          Lookup(function_uid_map, u) =
             IF Declaring(u) = {} THEN "None"
             ELSE devices[LastOf(Declaring(u))].funcs[u]

\* The registry was built from a device list in which two devices declare
\* "u1" and none declares "u4".
C15_Witness ==
    /\ ListenersSetUp
    /\ Cardinality(Declaring("u1")) = 2
    /\ function_uid_map["u1"] = "b2"
    /\ function_uid_map["u3"] = "b1"
    /\ "u4" \notin DOMAIN function_uid_map

\* C16: from the moment the poll task is started, no step changes
\* function_uid_map.
C16_RegistryReadOnlyWhilePolling ==
    [][pc # "idle" => function_uid_map' = function_uid_map]_vars

\* An event with an unknown function UID has been handled and the registry
\* still has exactly the declared function UIDs.
C16_Witness ==
    /\ pc # "idle"
    /\ \E i \in 1..Len(log) : log[i].msg = "unmapped"
    /\ DOMAIN function_uid_map = {u \in FunctionUIDs : Declaring(u) # {}}

\* C17: the poll task is started once, by the last step of a setup in which
\* get_devices succeeded, every device's function UIDs were merged into the
\* registry and register_events was called exactly once on every device; no
\* get_events call is made before that, and nothing of it is redone later.
C17_PollingStartsAfterSetup ==
    /\ [](pc # "idle" =>
            /\ setupPc = "done"
            /\ devices \in DeviceLists
            /\ devIdx = Len(devices)
            /\ \A i \in 1..Len(devices) :
                  /\ registered[i] = 1
                  /\ \A u \in DOMAIN devices[i].funcs : u \in DOMAIN function_uid_map)
    /\ [](\A i \in 1..Len(registered) : registered[i] <= 1)
    /\ [](pc = "idle" => nReceived = 0 /\ event = <<>>)
    /\ [][pc # pc' /\ pc = "idle" => setupPc = "create_task" /\ setupPc' = "done"]_vars
    /\ [][pc # "idle" => pc' # "idle" /\ registered' = registered
                                      /\ devices' = devices]_vars

\* The task is polling after a setup over three devices.
C17_Witness ==
    /\ pc = "calling"
    /\ Len(devices) = 3
    /\ registered = <<1, 1, 1>>
    /\ nReceived > 0

\* The position in the batch of the event handle_event is about to visit.
VisitedAt == Len(event) - Len(pending) + 1

\* The visited event is a stateful-channel event and the event dispatched
\* just before it, in the same batch, was the same event.
SecondOfTwoEqual ==
    /\ AtEvent
    /\ VisitedAt > 1
    /\ event[VisitedAt] = Visited
    /\ event[VisitedAt - 1].raw = Visited.raw
    /\ OnStatefulChannel(Visited.raw)
    /\ updates # <<>>
    /\ updates[Len(updates)].seq = event[VisitedAt - 1].seq

\* C18: dispatching the same stateful-channel event a second time in a row
\* leaves the cached state of every channel as it was after the first time.
C18_StateUpdateIdempotent ==
    [][SecondOfTwoEqual => chanValues' = chanValues]_vars

\* The same stateful-channel event was applied twice in a row and the
\* channel holds its values.
C18_Witness ==
    /\ Len(event) >= 2
    /\ Len(updates) >= 2
    /\ event[1].raw = event[2].raw
    /\ updates[Len(updates) - 1].seq = event[1].seq
    /\ updates[Len(updates)].seq = event[2].seq
    /\ chanValues[updates[Len(updates)].channel] =
          <<event[2].raw.deviceFunctionUID, event[2].raw.values>>

EffectsUnchanged ==
    /\ chanValues' = chanValues
    /\ updates' = updates
    /\ notified' = notified
    /\ bus' = bus

\* C19: once the last event of a batch has been dispatched without a
\* failure, and after an empty batch, the next step of the task is the next
\* get_events call; an empty batch changes no channel, notifies no listener
\* and fires nothing on the bus.
C19_NextCallAfterBatch ==
    /\ [][ (pc = "got" /\ event = <<>>)
           => (pc' = "calling" /\ failure' = failure /\ EffectsUnchanged) ]_vars
    /\ [][ (AtEvent /\ Len(pending) = 1 /\ failure' = failure)
           => pc' = "calling" ]_vars

\* The task is in its next get_events call after a batch that fired a bus
\* event, and again after an empty batch that followed it.
C19_Witness ==
    /\ pc = "calling"
    /\ event = <<>>
    /\ bus # <<>>
    /\ bus[Len(bus)].src.seq = nReceived

\* The comparison of the switch time of the visited event raises.
VisitedRaises ==
    /\ AtEvent
    /\ OnEventChannel(Visited.raw)
    /\ Len(Visited.raw.values) = 2
    /\ ~SwitchTimeComparable(Visited.raw)

ExceptionRecords == {i \in 1..Len(log) : log[i].level = "exception"}

\* C20: when the event at position k of a batch raises inside handle_event,
\* the step logs the failure and ends _async_update_data with UpdateFailed
\* without touching the effects of the events before k; the events after k
\* never have an effect, nothing changes afterwards, and there is at most
\* one such failure.
C20_PartialBatchOnFailure ==
    /\ [][ VisitedRaises
           => /\ pc' = "finished"
              /\ failure' = "UpdateFailed"
              /\ EffectsUnchanged
              /\ log' = Append(log, [level |-> "exception",
                                     msg |-> "failed to handle event",
                                     seq |-> Visited.seq]) ]_vars
    /\ [][ pc = "finished"
           => (pc' = "finished" /\ failure' = failure /\ log' = log
               /\ EffectsUnchanged) ]_vars
    /\ [](Cardinality(ExceptionRecords) <= 1)
    /\ [](failure = "UpdateFailed"
            => /\ pc = "finished"
               /\ Cardinality(ExceptionRecords) = 1
               /\ \A i \in ExceptionRecords, q \in 1..nReceived :
                     q > log[i].seq => ~HadEffect(q))

\* The second event of a batch of three raised: the first one's bus event is
\* in place, the third one was never dispatched.
C20_Witness ==
    /\ pc = "finished"
    /\ failure = "UpdateFailed"
    /\ Len(event) = 3
    /\ \E k \in 1..Len(bus) : bus[k].src = event[1]
    /\ \E i \in ExceptionRecords : log[i].seq = event[2].seq
    /\ OnEventChannel(event[3].raw)
    /\ Len(event[3].raw.values) = 2
    /\ SwitchTimeComparable(event[3].raw)
    /\ ~HadEffect(event[3].seq)

=============================================================================
